---- MODULE Spec2Model ----
(***************************************************************************)
(* Passkey authentication and session lifecycle of the task board:         *)
(* lib/auth (user directory, credential store, ceremony coordinator),      *)
(* the POST /api/passkeys/login route, the session cookie helpers and the  *)
(* logout operations; the task board routes (/api/tasks, /api/tasks/:id),  *)
(* the by-id task query, and the shared store connection of lib/surreal.   *)
(*                                                                         *)
(* Strings of the form "tb:id" are records [tb, id]; a string without a    *)
(* colon has tb = ""; the absent (undefined) string is Absent.  Record ids *)
(* generated by the store are the integers 1, 2, ...                       *)
(***************************************************************************)
EXTENDS Integers, FiniteSets, Sequences, TLC

VARIABLES
    users,      \* the "user" table: set of [id, email]
    passkeys,   \* the "passkey" table: set of [id, userId, credentialId]
    hanko,      \* the passkey provider's state: [pending, enrolled]
    session,    \* the client's cookie jar: [sid, h3], each a userId string
    last,       \* the last request handled and what it did
    inflight,   \* requests suspended at an await (interleaved execution)
    tasks,      \* the "task" table: set of task records
    clock,      \* the last instant the server clock was read at
    tlast,      \* the last task request handled and its response
    connectionPromise,  \* lib/surreal: the memoized promise (0: null)
    promises,   \* the state of each promise getSurrealConnection created
    callers,    \* what each caller of getSurrealConnection holds and saw
    reachable,  \* whether the database accepts connections
    page        \* routes/login: its signals and where its handler stands

vars == <<users, passkeys, hanko, session, last, inflight, tasks, clock,
          tlast, connectionPromise, promises, callers, reachable, page>>

connVars == <<connectionPromise, promises, callers, reachable>>

----------------------------------------------------------------------------
(* Bounds                                                                  *)

MaxUsers == 2

Slots == {"r1", "r2"}

UserNums == 1 .. MaxUsers

MaxConnects == 2

MaxTasks == 1

MaxClock == 2

TaskIds == 1 .. MaxTasks

Instants == 1 .. MaxClock

Callers == {"c1", "c2", "c3"}

----------------------------------------------------------------------------
(* Values                                                                  *)

Emails == {"a@x.com", "b@x.com", "nomail"}

\* z.string().email() of userSchema
IsEmail(e) == e \in {"a@x.com", "b@x.com"}

Str(tb, id) == [tb |-> tb, id |-> id]
Bare(id) == [tb |-> "", id |-> id]
Absent == [tb |-> "", id |-> 0]

\* Mutant: the id part alone, without the table.
MutIdPartOnly(tb, id) == Bare(id)

\* `${x.tb}:${x.id}`
FullIdString(tb, id) == Str(tb, id)

\* id.includes(":") ? id : `user:${id}`, then split(":", 2)
SplitUserId(s) == IF s.tb # "" THEN s ELSE Str("user", s.id)

NoUser == [id |-> 0, email |-> ""]

NoCred == [kind |-> "none", uid |-> 0]
JunkCred == [kind |-> "junk", uid |-> 0]

\* What a client can put in the credential field: the answer to the
\* registration challenge issued for provider user uid, an assertion by the
\* passkey enrolled for uid, or bytes that verify against nothing.
Credentials ==
    {[kind |-> k, uid |-> n] : k \in {"reg", "login"}, n \in UserNums}
        \cup {JunkCred}

\* What a client can put in the userId field of a finish request.
ClientUserIds == {Str("user", n) : n \in UserNums} \cup {Bare(1)}

StoreError == "<store exception text>"
ProviderError == "<provider exception text>"

Call(fn, arg, ok) == [fn |-> fn, arg |-> arg, ok |-> ok]

----------------------------------------------------------------------------
(* Session cookies (vinxi useSession)                                      *)

\* getUserSession().data.userId: the session named "sid"
SessionUserId(s) == s.sid

\* session.update({ userId })
SessionUpdate(s, userId) == [s EXCEPT !.sid = userId]

\* session.clear()
SessionClear(s) == [s EXCEPT !.sid = Absent]

----------------------------------------------------------------------------
(* User directory                                                          *)

\* userSchema.safeParse of a record of the user table
UserSchemaOk(rec) == rec.id # 0 /\ IsEmail(rec.email)

UsersWithEmail(U, email) == {u \in U : u.email = email}

\* The record "SELECT * FROM user WHERE email = $email LIMIT 1" may yield.
QueryPicks(U, email) ==
    IF UsersWithEmail(U, email) = {} THEN {NoUser} ELSE UsersWithEmail(U, email)

\* getUserByEmail: qOk is whether the store answers the query, pick the
\* record the query yields.
GetUserByEmail(U, email, qOk, pick) ==
    IF ~qOk THEN [t |-> "throw", user |-> NoUser, msg |-> StoreError]
    ELSE IF pick = NoUser THEN [t |-> "null", user |-> NoUser, msg |-> ""]
    ELSE IF UserSchemaOk(pick) THEN [t |-> "user", user |-> pick, msg |-> ""]
    ELSE [t |-> "null", user |-> NoUser, msg |-> ""]

\* The id the store generates for a new user record.
NewUserId(U) == Cardinality(U) + 1

\* createUser: db.create("user", userData), then the parse of the created
\* record.  The record stays in the table when its parse fails.
CreateUser(U, email, cOk) ==
    IF ~cOk THEN [t |-> "null", user |-> NoUser, U |-> U]
    ELSE LET rec == [id |-> NewUserId(U), email |-> email]
         IN  IF UserSchemaOk(rec)
             THEN [t |-> "user", user |-> rec, U |-> U \cup {rec}]
             ELSE [t |-> "null", user |-> NoUser, U |-> U \cup {rec}]

----------------------------------------------------------------------------
(* Passkey provider (Hanko tenant API), as the calls of lib/auth use it    *)

Ceremony(uid, name) == [uid |-> uid, name |-> name]

\* passkeyApi.registration.initialize({ userId, username }): issues a
\* registration challenge for provider user uid, or throws.
RegistrationInitialize(h, uid, name, ok) ==
    IF ok THEN [h EXCEPT !.pending = @ \cup {Ceremony(uid, name)}] ELSE h

\* Whether passkeyApi.registration.finalize(credential) verifies: the
\* credential answers a challenge the provider issued and has not consumed.
RegistrationVerifies(h, cred, net) ==
    net /\ cred.kind = "reg" /\ \E c \in h.pending : c.uid = cred.uid

\* passkeyApi.registration.finalize(credential)
RegistrationFinalize(h, cred, net) ==
    IF RegistrationVerifies(h, cred, net)
    THEN [pending |-> {c \in h.pending : c.uid # cred.uid},
          enrolled |-> h.enrolled \cup {c \in h.pending : c.uid = cred.uid}]
    ELSE h

\* Whether passkeyApi.login.finalize(credential) verifies: the assertion is
\* by a passkey enrolled with the provider.
LoginVerifies(h, cred, net) ==
    net /\ cred.kind = "login" /\ \E c \in h.enrolled : c.uid = cred.uid

\* The claims jose.decodeJwt reads from the token of login.finalize.  shape
\* is what the provider put in its response: no token, a token without sub,
\* a token with sub, a token with sub and email.
TokenShapes == {"notoken", "nosub", "sub", "subemail"}

TokenClaims(h, cred, shape) ==
    LET c == CHOOSE c \in h.enrolled : c.uid = cred.uid
    IN  [token |-> shape # "notoken",
         sub |-> IF shape \in {"sub", "subemail"} THEN c.uid ELSE 0,
         email |-> IF shape = "subemail" THEN c.name ELSE ""]

----------------------------------------------------------------------------
(* Ceremony coordinator: start phase                                       *)

\* Mutant: login.initialize is called whether or not a user was found.
MutStartLoginInitializeFirst(U, email, qOk, pick, initOk) ==
    LET found == GetUserByEmail(U, email, qOk, pick)
        q == Call("db.query.user", 0, qOk)
    IN  IF found.t = "throw"
        THEN [t |-> "throw", msg |-> found.msg, calls |-> {q}]
        ELSE IF initOk
        THEN [t |-> "options", msg |-> "",
              calls |-> {q, Call("login.initialize", 0, TRUE)}]
        ELSE [t |-> "null", msg |-> "",
              calls |-> {q, Call("login.initialize", 0, FALSE)}]

\* startServerPasskeyLogin(email)
StartServerPasskeyLogin(U, email, qOk, pick, initOk) ==
    LET found == GetUserByEmail(U, email, qOk, pick)
        q == Call("db.query.user", 0, qOk)
    IN  IF found.t = "throw"
        THEN [t |-> "throw", msg |-> found.msg, calls |-> {q}]
        ELSE IF found.t = "null"
        THEN [t |-> "null", msg |-> "", calls |-> {q}]
        ELSE IF initOk
        THEN [t |-> "options", msg |-> "",
              calls |-> {q, Call("login.initialize", 0, TRUE)}]
        ELSE [t |-> "null", msg |-> "",
              calls |-> {q, Call("login.initialize", 0, FALSE)}]

AlreadyRegistered == "Email is already registered."
CreateFailed == "Failed to create user before passkey registration."

\* startServerPasskeyRegistration(email)
StartServerPasskeyRegistration(U, h, email, qOk, pick, cOk, initOk) ==
    LET found == GetUserByEmail(U, email, qOk, pick)
        q == Call("db.query.user", 0, qOk)
        made == CreateUser(U, email, cOk)
        c == Call("db.create.user", 0, cOk)
    IN  IF found.t = "throw"
        THEN [t |-> "throw", msg |-> found.msg, userId |-> Absent,
              U |-> U, h |-> h, calls |-> {q}]
        ELSE IF found.t = "user"
        THEN [t |-> "throw", msg |-> AlreadyRegistered, userId |-> Absent,
              U |-> U, h |-> h, calls |-> {q}]
        ELSE IF made.t = "null"
        THEN [t |-> "throw", msg |-> CreateFailed, userId |-> Absent,
              U |-> made.U, h |-> h, calls |-> {q, c}]
        ELSE IF ~initOk
        THEN [t |-> "throw", msg |-> ProviderError, userId |-> Absent,
              U |-> made.U, h |-> h,
              calls |-> {q, c, Call("registration.initialize", made.user.id, FALSE)}]
        ELSE [t |-> "ok", msg |-> "",
              userId |-> FullIdString("user", made.user.id),
              U |-> made.U,
              h |-> RegistrationInitialize(h, made.user.id, made.user.email, TRUE),
              calls |-> {q, c, Call("registration.initialize", made.user.id, TRUE)}]

----------------------------------------------------------------------------
(* User directory: lookup by identifier                                    *)

\* getUserById(id): db.select of RecordId(table, id) and the parse of what
\* it yields; a select that throws is caught and yields null.  Only a
\* record of the user table can pass userSchema (id.tb must be "user").
GetUserById(U, id, sOk) ==
    LET rid == SplitUserId(id)
    IN  IF rid.tb = "" \/ rid.id = 0 THEN NoUser
        ELSE IF ~sOk THEN NoUser
        ELSE IF rid.tb # "user" THEN NoUser
        ELSE IF \E u \in U : u.id = rid.id /\ UserSchemaOk(u)
        THEN CHOOSE u \in U : u.id = rid.id
        ELSE NoUser

----------------------------------------------------------------------------
(* Credential store                                                        *)

\* passkeySchema.safeParse: userId must start with "user:"
PasskeySchemaOk(rec) == rec.id # 0 /\ rec.userId.tb = "user"

\* storePasskeyCredential(userId, credential): db.create("passkey", data),
\* then the parse of the created record.  The record stays in the table
\* when its parse fails.
StorePasskeyCredential(P, userId, cred, cOk) ==
    IF ~cOk THEN [t |-> "null", P |-> P]
    ELSE LET rec == [id |-> Cardinality(P) + 1, userId |-> userId,
                     credentialId |-> cred.uid]
         IN  IF PasskeySchemaOk(rec)
             THEN [t |-> "passkey", P |-> P \cup {rec}]
             ELSE [t |-> "null", P |-> P \cup {rec}]

----------------------------------------------------------------------------
(* Ceremony coordinator: finish phase                                      *)

FinalizeOrStorageFailed == "Passkey registration finalization or storage failed."

\* Mutant: the credential is stored before the provider is asked.
MutFinishRegStoreFirst(P, h, userId, cred, net, cOk) ==
    LET verified == RegistrationVerifies(h, cred, net)
        f == Call("registration.finalize", 0, verified)
        stored == StorePasskeyCredential(P, userId, cred, cOk)
        c == Call("db.create.passkey", 0, cOk)
    IN  IF stored.t = "null" \/ ~verified
        THEN [t |-> "throw", msg |-> FinalizeOrStorageFailed,
              P |-> stored.P, h |-> RegistrationFinalize(h, cred, net),
              calls |-> {f, c}]
        ELSE [t |-> "ok", msg |-> "",
              P |-> stored.P, h |-> RegistrationFinalize(h, cred, net),
              calls |-> {f, c}]

\* Mutant: a rejection by the provider is caught and ignored.
MutFinishRegIgnoreReject(P, h, userId, cred, net, cOk) ==
    LET verified == RegistrationVerifies(h, cred, net)
        f == Call("registration.finalize", 0, verified)
        stored == StorePasskeyCredential(P, userId, cred, cOk)
        c == Call("db.create.passkey", 0, cOk)
    IN  IF stored.t = "null"
        THEN [t |-> "throw", msg |-> FinalizeOrStorageFailed,
              P |-> stored.P, h |-> RegistrationFinalize(h, cred, net),
              calls |-> {f, c}]
        ELSE [t |-> "ok", msg |-> "",
              P |-> stored.P, h |-> RegistrationFinalize(h, cred, net),
              calls |-> {f, c}]

\* Mutant: the catch block logs the failure and does not rethrow.
MutFinishRegSwallow(P, h, userId, cred, net, cOk) ==
    LET verified == RegistrationVerifies(h, cred, net)
        f == Call("registration.finalize", 0, verified)
        stored == StorePasskeyCredential(P, userId, cred, cOk)
        c == Call("db.create.passkey", 0, cOk)
    IN  IF ~verified
        THEN [t |-> "ok", msg |-> "", P |-> P, h |-> h, calls |-> {f}]
        ELSE [t |-> "ok", msg |-> "",
              P |-> stored.P, h |-> RegistrationFinalize(h, cred, net),
              calls |-> {f, c}]

\* finishServerPasskeyRegistration(userId, credential)
FinishServerPasskeyRegistration(P, h, userId, cred, net, cOk) ==
    LET verified == RegistrationVerifies(h, cred, net)
        f == Call("registration.finalize", 0, verified)
        stored == StorePasskeyCredential(P, userId, cred, cOk)
        c == Call("db.create.passkey", 0, cOk)
    IN  IF ~verified
        THEN [t |-> "throw", msg |-> FinalizeOrStorageFailed,
              P |-> P, h |-> h, calls |-> {f}]
        ELSE IF stored.t = "null"
        THEN [t |-> "throw", msg |-> FinalizeOrStorageFailed,
              P |-> stored.P, h |-> RegistrationFinalize(h, cred, net),
              calls |-> {f, c}]
        ELSE [t |-> "ok", msg |-> "",
              P |-> stored.P, h |-> RegistrationFinalize(h, cred, net),
              calls |-> {f, c}]

\* Mutant: the token's subject is trusted without the lookup's answer.
MutFinishLoginTrustToken(U, h, cred, net, shape, sOk, qOk, pick) ==
    LET verified == LoginVerifies(h, cred, net)
        f == Call("login.finalize", 0, verified)
        claims == TokenClaims(h, cred, shape)
        s == Call("db.select.user", 0, sOk)
    IN  IF ~verified \/ ~claims.token \/ claims.sub = 0
        THEN [t |-> "null", user |-> NoUser, userIdString |-> Absent,
              calls |-> {f}]
        ELSE [t |-> "user", user |-> [id |-> claims.sub, email |-> claims.email],
              userIdString |-> FullIdString("user", claims.sub),
              calls |-> {f, s}]

\* finishServerPasskeyLogin(credential): every throw inside is caught and
\* yields null.
FinishServerPasskeyLogin(U, h, cred, net, shape, sOk, qOk, pick) ==
    LET verified == LoginVerifies(h, cred, net)
        f == Call("login.finalize", 0, verified)
        claims == TokenClaims(h, cred, shape)
        byId == GetUserById(U, Str("user", claims.sub), sOk)
        s == Call("db.select.user", 0, sOk)
        byEmail == GetUserByEmail(U, claims.email, qOk, pick)
        q == Call("db.query.user", 0, qOk)
    IN  IF ~verified
        THEN [t |-> "null", user |-> NoUser, userIdString |-> Absent,
              calls |-> {f}]
        ELSE IF ~claims.token \/ claims.sub = 0
        THEN [t |-> "null", user |-> NoUser, userIdString |-> Absent,
              calls |-> {f}]
        ELSE IF byId # NoUser
        THEN [t |-> "user", user |-> byId,
              userIdString |-> FullIdString("user", byId.id),
              calls |-> {f, s}]
        ELSE IF claims.email = ""
        THEN [t |-> "null", user |-> NoUser, userIdString |-> Absent,
              calls |-> {f, s}]
        ELSE IF byEmail.t = "user"
        THEN [t |-> "user", user |-> byEmail.user,
              userIdString |-> FullIdString("user", byEmail.user.id),
              calls |-> {f, s, q}]
        ELSE [t |-> "null", user |-> NoUser, userIdString |-> Absent,
              calls |-> {f, s, q}]

----------------------------------------------------------------------------
(* POST /api/passkeys/login                                                *)

Request(start, finish, email, credential, userId) ==
    [start |-> start, finish |-> finish, email |-> email,
     credential |-> credential, userId |-> userId]

\* The branch conditions of the handler, in its order: `start && email`,
\* `finish && credential`, then `userId`.
Phase(req) ==
    IF req.start /\ req.email # "" THEN "start"
    ELSE IF req.finish /\ req.credential # NoCred
    THEN IF req.userId # Absent THEN "finishReg" ELSE "finishLogin"
    ELSE "invalid"

\* `if (authUserIdString)`
AuthUserIdPresent(id) == id # Absent

\* `if (loginOptions)`
LoginOptionsFound(lg) == lg.t = "options"

\* What the last request was and did.  hadUser, wasPending, verifiedFor,
\* created and stored are history: the user table had a record with the
\* request's email, the provider held a pending registration ceremony for
\* the request's userId, the provider user whose ceremony the request's
\* credential verified for (0: none), the user records and the passkey
\* records the request added.
Quiet ==
    [op |-> "none", email |-> "", userId |-> Absent, verifiedFor |-> 0,
     status |-> 0, msg |-> "", branch |-> "", loginResult |-> "",
     respUserId |-> Absent, calls |-> {}, hadUser |-> FALSE,
     wasPending |-> FALSE, created |-> {}, stored |-> {}]

Outcome(U, P, h, s, resp) == [U |-> U, P |-> P, h |-> h, s |-> s, resp |-> resp]

\* The start phase of the handler.
PostStart(U, P, h, s, req, env) ==
    LET lg == StartServerPasskeyLogin(U, req.email, env.q1, env.pick1, env.loginInit)
        rg == StartServerPasskeyRegistration(U, h, req.email, env.q2, env.pick2,
                                             env.create, env.regInit)
        base == [Quiet EXCEPT !.op = "start", !.email = req.email,
                              !.loginResult = lg.t,
                              !.hadUser = UsersWithEmail(U, req.email) # {}]
    IN  IF lg.t = "throw"
        THEN Outcome(U, P, h, s,
                 [base EXCEPT !.status = 500, !.msg = lg.msg, !.calls = lg.calls])
        ELSE IF LoginOptionsFound(lg)
        THEN Outcome(U, P, h, s,
                 [base EXCEPT !.status = 200, !.branch = "login",
                              !.calls = lg.calls])
        ELSE IF rg.t = "ok"
        THEN Outcome(rg.U, P, rg.h, s,
                 [base EXCEPT !.status = 200, !.branch = "register",
                              !.respUserId = rg.userId,
                              !.calls = lg.calls \cup rg.calls,
                              !.created = rg.U \ U])
        ELSE Outcome(rg.U, P, rg.h, s,
                 [base EXCEPT !.status = 409, !.branch = "register",
                              !.msg = rg.msg,
                              !.calls = lg.calls \cup rg.calls,
                              !.created = rg.U \ U])

\* The finish phase of the handler.
PostFinish(U, P, h, s, req, env) ==
    LET fr == FinishServerPasskeyRegistration(P, h, req.userId, req.credential,
                                              env.net, env.store)
        fl == FinishServerPasskeyLogin(U, h, req.credential, env.net, env.shape,
                                       env.select, env.q1, env.pick1)
        base == [Quiet EXCEPT !.op = "finish", !.userId = req.userId,
                              !.verifiedFor =
                                  IF req.userId # Absent
                                  THEN IF RegistrationVerifies(h, req.credential, env.net)
                                       THEN req.credential.uid ELSE 0
                                  ELSE IF LoginVerifies(h, req.credential, env.net)
                                       THEN req.credential.uid ELSE 0,
                              !.wasPending =
                                  \E c \in h.pending :
                                      Str("user", c.uid) = SplitUserId(req.userId)]
    IN  IF req.userId # Absent
        THEN IF fr.t = "throw"
             THEN Outcome(U, fr.P, fr.h, s,
                      [base EXCEPT !.status = 500, !.branch = "register",
                                   !.msg = fr.msg, !.calls = fr.calls,
                                   !.stored = fr.P \ P])
             ELSE IF ~AuthUserIdPresent(req.userId)
             THEN Outcome(U, fr.P, fr.h, s,
                      [base EXCEPT !.status = 500, !.branch = "register",
                                   !.msg = "Authentication failed unexpectedly.",
                                   !.calls = fr.calls, !.stored = fr.P \ P])
             ELSE Outcome(U, fr.P, fr.h, SessionUpdate(s, req.userId),
                      [base EXCEPT !.status = 200, !.branch = "register",
                                   !.msg = "Registration successful.",
                                   !.respUserId = req.userId,
                                   !.calls = fr.calls, !.stored = fr.P \ P])
        ELSE IF fl.t = "null"
             THEN Outcome(U, P, h, s,
                      [base EXCEPT !.status = 401, !.branch = "login",
                                   !.msg = "Passkey login failed.",
                                   !.calls = fl.calls])
             ELSE IF ~AuthUserIdPresent(fl.userIdString)
             THEN Outcome(U, P, h, s,
                      [base EXCEPT !.status = 500, !.branch = "login",
                                   !.msg = "Authentication failed unexpectedly.",
                                   !.calls = fl.calls])
             ELSE Outcome(U, P, h, SessionUpdate(s, fl.userIdString),
                      [base EXCEPT !.status = 200, !.branch = "login",
                                   !.msg = "Passkey login successful.",
                                   !.respUserId = fl.userIdString,
                                   !.calls = fl.calls])

\* POST({ request })
Post(U, P, h, s, req, env) ==
    IF Phase(req) = "start" THEN PostStart(U, P, h, s, req, env)
    ELSE IF Phase(req) \in {"finishReg", "finishLogin"}
    THEN PostFinish(U, P, h, s, req, env)
    ELSE Outcome(U, P, h, s,
             [Quiet EXCEPT !.op = "invalid", !.status = 400,
                           !.msg = "Invalid request parameters."])

----------------------------------------------------------------------------
(* POST /api/passkeys/register                                             *)

\* The text of the TypeError a call of an undefined binding raises.
NotAFunction == "getUserFromRequest is not a function"

\* getUserFromRequest(request): lib/auth keeps its definition commented
\* out and exports no such name, so the binding the route imports is
\* undefined and the call throws.
GetUserFromRequest(U, s) ==
    [t |-> "throw", user |-> NoUser, msg |-> NotAFunction]

\* `if (start)`, `else if (finish && credential)` of the register route
RegisterPhase(req) ==
    IF req.start THEN "start"
    ELSE IF req.finish /\ req.credential # NoCred THEN "finish"
    ELSE "invalid"

\* POST({ request }) of the register route.  Its calls pass user.id.id, the
\* id part of the user's record id: as the email to register, and as the
\* userId to store the credential under.
PostRegister(U, P, h, s, req, env) ==
    LET who == GetUserFromRequest(U, s)
        rg == StartServerPasskeyRegistration(U, h, ToString(who.user.id),
                                             env.q2, env.pick2, env.create,
                                             env.regInit)
        fr == FinishServerPasskeyRegistration(P, h, Bare(who.user.id),
                                              req.credential, env.net, env.store)
        base == [Quiet EXCEPT !.op = "register", !.branch = RegisterPhase(req)]
    IN  IF who.t = "throw"
        THEN Outcome(U, P, h, s,
                 [base EXCEPT !.status = 500, !.msg = who.msg])
        ELSE IF who.user = NoUser
        THEN Outcome(U, P, h, s,
                 [base EXCEPT !.status = 401,
                              !.msg = "Unauthorized: User not logged in."])
        ELSE IF RegisterPhase(req) = "start"
        THEN IF rg.t = "throw"
             THEN Outcome(rg.U, P, rg.h, s,
                      [base EXCEPT !.status = 500, !.msg = rg.msg,
                                   !.calls = rg.calls, !.created = rg.U \ U])
             ELSE Outcome(rg.U, P, rg.h, s,
                      [base EXCEPT !.status = 200, !.calls = rg.calls,
                                   !.created = rg.U \ U])
        ELSE IF RegisterPhase(req) = "finish"
        THEN IF fr.t = "throw"
             THEN Outcome(U, fr.P, fr.h, s,
                      [base EXCEPT !.status = 500, !.msg = fr.msg,
                                   !.calls = fr.calls, !.stored = fr.P \ P])
             ELSE Outcome(U, fr.P, fr.h, s,
                      [base EXCEPT !.status = 200,
                                   !.msg = "Passkey registration successful.",
                                   !.calls = fr.calls, !.stored = fr.P \ P])
        ELSE Outcome(U, P, h, s,
                 [base EXCEPT !.status = 400,
                              !.msg = "Invalid request parameters."])

----------------------------------------------------------------------------
(* Logout and the session check of the pages                               *)

\* lib/server getSession(): useSession without a name, the session "h3"
ServerSessionUpdate(s) == [s EXCEPT !.h3 = Absent]

\* lib/index logout: getUserSession() then session.clear()
LogoutAction(s) == SessionClear(s)

\* lib/server logout: getSession() then update(d => d.userId = undefined)
ServerLogout(s) == ServerSessionUpdate(s)

\* lib/index getUser: the session's user, the session cleared when its
\* userId resolves to no user.
GetUserQuery(U, s, sOk) ==
    LET userIdString == SessionUserId(s)
        user == GetUserById(U, userIdString, sOk)
    IN  IF userIdString = Absent THEN [s |-> s, user |-> NoUser]
        ELSE IF user = NoUser THEN [s |-> SessionClear(s), user |-> NoUser]
        ELSE [s |-> s, user |-> user]

----------------------------------------------------------------------------
(* Task board: /api/tasks and /api/tasks/:id                               *)

\* What the last task request was and what it answered: data is the set of
\* task records of the response body.  extras and storeOk are history: the
\* request's body carried author, createdAt and updatedAt, and every call
\* the request made to the store was answered.
TaskQuiet ==
    [op |-> "none", status |-> 0, id |-> 0, data |-> {}, extras |-> FALSE,
     storeOk |-> TRUE, calls |-> {}, existed |-> FALSE, bodyOk |-> TRUE,
     tb |-> "task"]

\* A task record of the store; the timestamps are instants of the server
\* clock (ISO strings compare as the instants do).  "" and 0 stand for an
\* absent field.
NoTask ==
    [id |-> 0, author |-> Absent, title |-> "", status |-> "",
     createdAt |-> 0, updatedAt |-> 0]

\* title: z.string().min(2)
TitleOk(t) == t \in {"ab", "cd"}

\* status, label and priority: z.enum([...]), taken together
StatusOk(v) == v = "todo"

\* taskSchema.safeParse of a record the store returns
TaskSchemaOk(rec) ==
    rec.id # 0 /\ TitleOk(rec.title) /\ StatusOk(rec.status)
        /\ rec.author.tb = "user"

\* A JSON body of a task request.  A client may add author, createdAt and
\* updatedAt of its choosing.
Body(title, status, author, at) ==
    [title |-> title, status |-> status, author |-> author,
     createdAt |-> at, updatedAt |-> at]

\* Mutant: the fields the client sent are all kept.
MutKeepClientFields(payload) == payload

\* .omit({ id, author, createdAt, updatedAt }) on a z.object: the parse
\* drops the keys the schema does not declare.
OmitServerFields(payload) ==
    [payload EXCEPT !.author = Absent, !.createdAt = 0, !.updatedAt = 0]

\* taskInputSchema.safeParse(payload): title and the enums are required
TaskInputSchema(payload) ==
    [success |-> TitleOk(payload.title) /\ StatusOk(payload.status),
     data |-> OmitServerFields(payload)]

\* Mutant: the update schema lets every field of the body through.
MutUpdateSchemaPassthrough(payload) == [success |-> TRUE, data |-> payload]

\* taskUpdateSchema.safeParse(payload): every field optional
TaskUpdateSchema(payload) ==
    [success |-> /\ payload.title # "" => TitleOk(payload.title)
                 /\ payload.status # "" => StatusOk(payload.status),
     data |-> OmitServerFields(payload)]

\* Object.keys(validationResult.data).length === 0
NoKeys(data) ==
    data.title = "" /\ data.status = "" /\ data.author = Absent
        /\ data.createdAt = 0 /\ data.updatedAt = 0

\* { ...a, ...b }: the fields of b that are present replace those of a
Spread(a, b) ==
    [id |-> a.id,
     author |-> IF b.author # Absent THEN b.author ELSE a.author,
     title |-> IF b.title # "" THEN b.title ELSE a.title,
     status |-> IF b.status # "" THEN b.status ELSE a.status,
     createdAt |-> IF b.createdAt # 0 THEN b.createdAt ELSE a.createdAt,
     updatedAt |-> IF b.updatedAt # 0 THEN b.updatedAt ELSE a.updatedAt]

TaskResponse(op, status, id, data) ==
    [TaskQuiet EXCEPT !.op = op, !.status = status, !.id = id, !.data = data]

\* Whether a body carries the fields only the server may set.
Extras(payload) == payload.author # Absent \/ payload.createdAt # 0

History(out, extras, storeOk) ==
    [out EXCEPT !.resp.extras = extras, !.resp.storeOk = storeOk]

\* History: the operations the request ran on the store, whether the table
\* held a record with the request's id, and the schema's verdict on the
\* request's body.
Trace(out, calls, existed, bodyOk) ==
    [out EXCEPT !.resp.calls = calls, !.resp.existed = existed,
                !.resp.bodyOk = bodyOk]

TaskOutcome(T, now, resp) == [T |-> T, clock |-> now, resp |-> resp]

\* What db.query resolves to: one entry per statement, each entry the array
\* of the rows the statement selected.
QueryResults(rows) == [array |-> TRUE, rows |-> rows]

\* entry?.result: an array has no property named result
ResultProperty(entry) ==
    IF entry.array THEN [defined |-> FALSE, rows |-> {}]
    ELSE [defined |-> TRUE, rows |-> entry.rows]

\* GET /api/tasks
TasksGet(T, s, now, qOk) ==
    LET userId == SessionUserId(s)
        response == QueryResults({t \in T : t.author = userId})
        result == ResultProperty(response)
        found == IF result.defined THEN result.rows ELSE {}
    IN  Trace(History(
            IF userId = Absent
            THEN TaskOutcome(T, now, TaskResponse("get", 401, 0, {}))
            ELSE IF ~qOk
            THEN TaskOutcome(T, now, TaskResponse("get", 500, 0, {}))
            ELSE TaskOutcome(T, now, TaskResponse("get", 200, 0, found)),
            FALSE, qOk),
            IF userId = Absent THEN {} ELSE {"db.query"}, FALSE, TRUE)

\* POST /api/tasks; id is what nanoid drew, at1 and at2 the two readings of
\* the clock.  db.create fails when the store fails or the id is taken.
TasksPost(T, s, now, payload, id, at1, at2, cOk) ==
    LET userId == SessionUserId(s)
        validationResult == TaskInputSchema(payload)
        taskDataToCreate ==
            Spread([NoTask EXCEPT !.id = id],
                   [validationResult.data EXCEPT !.author = userId,
                                                 !.createdAt = at1,
                                                 !.updatedAt = at2])
        created == cOk /\ ~\E t \in T : t.id = id
    IN  Trace(History(
            IF userId = Absent
            THEN TaskOutcome(T, now, TaskResponse("post", 401, 0, {}))
            ELSE IF ~validationResult.success
            THEN TaskOutcome(T, now, TaskResponse("post", 400, 0, {}))
            ELSE IF ~created
            THEN TaskOutcome(T, at2, TaskResponse("post", 500, id, {}))
            ELSE IF ~TaskSchemaOk(taskDataToCreate)
            THEN TaskOutcome(T \cup {taskDataToCreate}, at2,
                             TaskResponse("post", 500, id, {}))
            ELSE TaskOutcome(T \cup {taskDataToCreate}, at2,
                             TaskResponse("post", 201, id, {taskDataToCreate})),
            Extras(payload), userId = Absent \/ ~validationResult.success \/ cOk),
            IF userId = Absent \/ ~validationResult.success
            THEN {} ELSE {"db.create"},
            FALSE, validationResult.success)

\* Mutant: no ownership check.
MutNoOwnerCheck(T, id, sessionUserId, sOk) ==
    IF ~sOk THEN 500
    ELSE IF ~\E t \in T : t.id = id THEN 404
    ELSE 0

\* getTaskAndCheckAuth(taskId, sessionUserId): the status of its error
\* response, 0 when it returns the task
GetTaskAndCheckAuth(T, id, sessionUserId, sOk) ==
    IF ~sOk THEN 500
    ELSE IF ~\E t \in T : t.id = id THEN 404
    ELSE LET task == CHOOSE t \in T : t.id = id
         IN  IF ~TaskSchemaOk(task) THEN 500
             ELSE IF FullIdString(task.author.tb, task.author.id) # sessionUserId
             THEN 403
             ELSE 0

\* PATCH /api/tasks/:id
TasksPatch(T, s, now, id, payload, at, sOk, mOk) ==
    LET userId == SessionUserId(s)
        fetchError == GetTaskAndCheckAuth(T, id, userId, sOk)
        validationResult == TaskUpdateSchema(payload)
        updateData == [validationResult.data EXCEPT !.updatedAt = at]
        task == CHOOSE t \in T : t.id = id
        merged == Spread(task, updateData)
    IN  Trace(History(
            IF userId = Absent
            THEN TaskOutcome(T, now, TaskResponse("patch", 401, id, {}))
            ELSE IF fetchError # 0
            THEN TaskOutcome(T, now, TaskResponse("patch", fetchError, id, {}))
            ELSE IF ~validationResult.success \/ NoKeys(validationResult.data)
            THEN TaskOutcome(T, now, TaskResponse("patch", 400, id, {}))
            ELSE IF ~mOk
            THEN TaskOutcome(T, at, TaskResponse("patch", 500, id, {}))
            ELSE IF ~TaskSchemaOk(merged)
            THEN TaskOutcome((T \ {task}) \cup {merged}, at,
                             TaskResponse("patch", 500, id, {}))
            ELSE TaskOutcome((T \ {task}) \cup {merged}, at,
                             TaskResponse("patch", 200, id, {merged})),
            Extras(payload), userId = Absent \/ (sOk /\ mOk)),
            IF userId = Absent THEN {}
            ELSE IF fetchError # 0 \/ ~validationResult.success
                      \/ NoKeys(validationResult.data)
            THEN {"db.select"} ELSE {"db.select", "db.merge"},
            \E t \in T : t.id = id,
            validationResult.success /\ ~NoKeys(validationResult.data))

\* Mutant: the record is deleted before the session and the owner are
\* checked.
MutDeleteBeforeCheck(T, s, now, id, sOk, dOk) ==
    LET userId == SessionUserId(s)
        fetchError == GetTaskAndCheckAuth(T, id, userId, sOk)
        left == IF dOk THEN {t \in T : t.id # id} ELSE T
    IN  Trace(History(
            IF userId = Absent
            THEN TaskOutcome(left, now, TaskResponse("delete", 401, id, {}))
            ELSE IF fetchError # 0
            THEN TaskOutcome(left, now, TaskResponse("delete", fetchError, id, {}))
            ELSE IF ~dOk
            THEN TaskOutcome(left, now, TaskResponse("delete", 500, id, {}))
            ELSE TaskOutcome(left, now, TaskResponse("delete", 204, id, {})),
            FALSE, userId = Absent \/ (sOk /\ dOk)),
            {"db.delete", "db.select"}, \E t \in T : t.id = id, TRUE)

\* DELETE /api/tasks/:id
TasksDelete(T, s, now, id, sOk, dOk) ==
    LET userId == SessionUserId(s)
        fetchError == GetTaskAndCheckAuth(T, id, userId, sOk)
    IN  Trace(History(
            IF userId = Absent
            THEN TaskOutcome(T, now, TaskResponse("delete", 401, id, {}))
            ELSE IF fetchError # 0
            THEN TaskOutcome(T, now, TaskResponse("delete", fetchError, id, {}))
            ELSE IF ~dOk
            THEN TaskOutcome(T, now, TaskResponse("delete", 500, id, {}))
            ELSE TaskOutcome({t \in T : t.id # id}, now,
                             TaskResponse("delete", 204, id, {})),
            FALSE, userId = Absent \/ (sOk /\ dOk)),
            IF userId = Absent THEN {}
            ELSE IF fetchError # 0 THEN {"db.select"}
            ELSE {"db.select", "db.delete"},
            \E t \in T : t.id = id, TRUE)

\* The :id of a request may name any table: "tb:id" is split at the colon
\* and RecordId(tb, id) is what the handler selects, merges into and
\* deletes.  The records the store holds under an id of the user table or
\* the passkey table:
SelectRecord(U, P, rid) ==
    IF rid.tb = "user" THEN {u \in U : u.id = rid.id}
    ELSE IF rid.tb = "passkey" THEN {p \in P : p.id = rid.id}
    ELSE {}

\* taskSchema.safeParse of a record of table rid.tb: its id must be a
\* record link of table task (and a user or passkey record has no title,
\* status, label, priority or author).
RecordLinkTask(rid) == rid.tb = "task"

\* Mutant: the record selected is not parsed as a task.
MutRecordUnchecked(U, P, rid, sessionUserId, sOk) ==
    IF ~sOk THEN 500
    ELSE IF SelectRecord(U, P, rid) = {} THEN 404
    ELSE 0

\* getTaskAndCheckAuth(taskId, sessionUserId) for an id of another table:
\* the status of its error response, 0 when it returns the record
GetRecordAndCheckAuth(U, P, rid, sessionUserId, sOk) ==
    IF ~sOk THEN 500
    ELSE IF SelectRecord(U, P, rid) = {} THEN 404
    ELSE IF ~RecordLinkTask(rid) THEN 500
    ELSE 0

OtherOutcome(U, P, now, resp) == [U |-> U, P |-> P, clock |-> now, resp |-> resp]

\* db.delete(taskRecordIdObject)
DeleteRecord(R, rid) == {r \in R : r.id # rid.id}

\* db.merge(taskRecordIdObject, updateData): the record gains updatedAt
MergeRecord(R, rid, at) ==
    {r \in R : r.id # rid.id}
        \cup {[id |-> r.id, updatedAt |-> at, was |-> r] : r \in {x \in R : x.id = rid.id}}

\* PATCH /api/tasks/:id for an id of another table
TasksPatchOther(U, P, s, now, rid, payload, at, sOk, mOk) ==
    LET userId == SessionUserId(s)
        fetchError == GetRecordAndCheckAuth(U, P, rid, userId, sOk)
        validationResult == TaskUpdateSchema(payload)
        resp(status) == [TaskResponse("patchOther", status, rid.id, {})
                            EXCEPT !.tb = rid.tb,
                                   !.storeOk = (userId = Absent \/ sOk),
                                   !.existed = SelectRecord(U, P, rid) # {}]
    IN  IF userId = Absent THEN OtherOutcome(U, P, now, resp(401))
        ELSE IF fetchError # 0 THEN OtherOutcome(U, P, now, resp(fetchError))
        ELSE IF ~validationResult.success \/ NoKeys(validationResult.data)
        THEN OtherOutcome(U, P, now, resp(400))
        ELSE IF ~mOk THEN OtherOutcome(U, P, at, resp(500))
        ELSE OtherOutcome(IF rid.tb = "user" THEN MergeRecord(U, rid, at) ELSE U,
                          IF rid.tb = "passkey" THEN MergeRecord(P, rid, at) ELSE P,
                          at, resp(500))

\* DELETE /api/tasks/:id for an id of another table
TasksDeleteOther(U, P, s, now, rid, sOk, dOk) ==
    LET userId == SessionUserId(s)
        fetchError == GetRecordAndCheckAuth(U, P, rid, userId, sOk)
        resp(status) == [TaskResponse("deleteOther", status, rid.id, {})
                            EXCEPT !.tb = rid.tb,
                                   !.storeOk = (userId = Absent \/ sOk),
                                   !.existed = SelectRecord(U, P, rid) # {}]
    IN  IF userId = Absent THEN OtherOutcome(U, P, now, resp(401))
        ELSE IF fetchError # 0 THEN OtherOutcome(U, P, now, resp(fetchError))
        ELSE IF ~dOk THEN OtherOutcome(U, P, now, resp(500))
        ELSE OtherOutcome(IF rid.tb = "user" THEN DeleteRecord(U, rid) ELSE U,
                          IF rid.tb = "passkey" THEN DeleteRecord(P, rid) ELSE P,
                          now, resp(204))

\* The methods routes/api/tasks/[id].ts exports a handler for.
TaskByIdMethods == {"PATCH", "DELETE"}

\* lib/task-handlers getTaskById(id): fetch(`/api/tasks/${id}`), a GET; a
\* response that is not ok makes it return { success: false }.
GetTaskById(T, id) ==
    IF "GET" \in TaskByIdMethods /\ \E t \in T : t.id = id
    THEN [success |-> TRUE, data |-> {t \in T : t.id = id}]
    ELSE [success |-> FALSE, data |-> {}]

\* lib/queries getTaskByIdQuery(taskId, event): data is the task it
\* resolves to ({} for null).  With a request it first calls
\* getUserFromRequest, which lib/auth does not define: the call throws.
GetTaskByIdQuery(T, id, withRequest) ==
    LET response == GetTaskById(T, id)
    IN  IF withRequest
        THEN TaskResponse("taskById", 500, id, {})
        ELSE TaskResponse("taskById", 0, id,
                          IF response.success THEN response.data ELSE {})

----------------------------------------------------------------------------
(* The login page (routes/login): handlePasskeyAuth                        *)

\* What the handler reads from the body of a start response.
NoStartData == [isRegistering |-> FALSE, options |-> FALSE, userId |-> Absent]

NoPayload == [finish |-> FALSE, credential |-> NoCred, userId |-> Absent]

\* The page as it is created: the signals email, error (""  for null),
\* isLoading and registerUserId.  startData, finishPayload, finishKind,
\* navigated and path are what the last run of the handler read, sent and
\* did.
FreshPage ==
    [pc |-> "idle", email |-> "", error |-> "", isLoading |-> FALSE,
     registerUserId |-> Absent, startData |-> NoStartData,
     finishPayload |-> NoPayload, finishKind |-> "", navigated |-> FALSE,
     path |-> ""]

\* `finally { setIsLoading(false) }`
Finally(pg, path) == [pg EXCEPT !.isLoading = FALSE, !.pc = "ended", !.path = path]

\* `catch (err) { setError(err.message || ...) }`, then the finally block
Caught(pg, msg, path) == Finally([pg EXCEPT !.error = msg], path)

\* An early `return` after setError and setIsLoading(false); inside the
\* try block the finally block runs as well.
Returned(pg, msg, path) ==
    Finally([pg EXCEPT !.error = msg, !.isLoading = FALSE], path)

\* The handler from the submit event to its first await.
HandlerBegins(pg, email) ==
    LET reset == [FreshPage EXCEPT !.email = email, !.isLoading = TRUE]
    IN  IF email = ""
        THEN [reset EXCEPT !.error = "Please enter your email address.",
                           !.isLoading = FALSE, !.pc = "ended",
                           !.path = "noEmail"]
        ELSE [reset EXCEPT !.pc = "startFetch"]

\* startResp.ok and the body of the start response, as the endpoint builds
\* it: the options are sent with every 200, userId with a registration.
StartResponse(resp) ==
    [ok |-> resp.status = 200, status |-> resp.status,
     data |-> [isRegistering |-> resp.branch = "register",
               options |-> resp.status = 200,
               userId |-> resp.respUserId]]

\* The handler from the start response to its next await.  fetched is
\* whether fetch resolved.
AfterStart(pg, resp, fetched) ==
    LET startResp == StartResponse(resp)
        startData == startResp.data
        got == [pg EXCEPT !.startData = startData]
    IN  IF ~fetched THEN Caught(pg, "fetch failed", "fetchError")
        ELSE IF ~startResp.ok
        THEN Returned(pg, IF startResp.status = 409
                          THEN "This email is already registered."
                          ELSE "Failed to start passkey process.",
                      "startRefused")
        ELSE IF startData.isRegistering
        THEN IF ~startData.options
             THEN Caught(got, "Missing registration options from server.",
                         "missingOptions")
             ELSE IF startData.userId = Absent
             THEN Caught(got, "Missing userId from server for registration.",
                         "missingUserId")
             ELSE [got EXCEPT !.registerUserId = startData.userId,
                              !.pc = "startRegistration"]
        ELSE IF ~startData.options
        THEN Caught(got, "Missing login options from server.", "missingOptions")
        ELSE [got EXCEPT !.pc = "startAuthentication"]

\* Mutant: the finish body never carries a userId.
MutFinishPayloadNoUserId(startData, registerUserId, credential) ==
    [finish |-> TRUE, credential |-> credential, userId |-> Absent]

\* finishPayload: { finish: true, credential }, and userId when
\* `startData.isRegistering && registerUserId()`
FinishPayload(startData, registerUserId, credential) ==
    [finish |-> TRUE, credential |-> credential,
     userId |-> IF startData.isRegistering /\ registerUserId # Absent
                THEN registerUserId ELSE Absent]

\* The handler from the browser's answer (startRegistration or
\* startAuthentication resolving with a credential, or throwing) to the
\* await of the finish fetch.
AfterCeremony(pg, ok, credential) ==
    IF ~ok
    THEN Returned(pg, IF pg.pc = "startRegistration"
                      THEN "Client-side registration error"
                      ELSE "Passkey operation cancelled.",
                  "webauthnError")
    ELSE [pg EXCEPT !.finishPayload =
                        FinishPayload(pg.startData, pg.registerUserId, credential),
                    !.pc = "finishFetch"]

\* The handler from the finish response to its end.
AfterFinish(pg, resp, fetched) ==
    LET kind == [pg EXCEPT !.finishKind = IF resp.op = "finish" THEN resp.branch
                                          ELSE resp.op]
    IN  IF ~fetched THEN Caught(pg, "fetch failed", "fetchError")
        ELSE IF resp.status # 200
        THEN Caught(kind, "Passkey authentication failed on server.",
                    "finishRefused")
        ELSE Finally([kind EXCEPT !.navigated = TRUE], "success")

----------------------------------------------------------------------------
(* Requests handled one at a time                                          *)

Idle == [pc |-> "idle", email |-> "", user |-> NoUser, status |-> 0]

\* A caller of getSurrealConnection that holds no promise yet.
NoCall == [promise |-> 0, outcome |-> "none"]

Init ==
    /\ users = {}
    /\ passkeys = {}
    /\ hanko = [pending |-> {}, enrolled |-> {}]
    /\ session = [sid |-> Absent, h3 |-> Absent]
    /\ last = Quiet
    /\ inflight = [r \in Slots |-> Idle]
    /\ tasks = {}
    /\ clock = 1
    /\ tlast = TaskQuiet
    /\ connectionPromise = 0
    /\ promises = [i \in 1 .. MaxConnects |-> "none"]
    /\ callers = [c \in Callers |-> NoCall]
    /\ reachable = TRUE
    /\ page = FreshPage

\* A request of the authentication routes: it answers no task request and
\* leaves the task table, the clock and the connection alone.
AuthOnly ==
    /\ tlast' = TaskQuiet
    /\ UNCHANGED <<tasks, clock, connVars, page>>

Env(q1, pick1, loginInit, q2, pick2, create, regInit, net, store, shape, select) ==
    [q1 |-> q1, pick1 |-> pick1, loginInit |-> loginInit, q2 |-> q2,
     pick2 |-> pick2, create |-> create, regInit |-> regInit, net |-> net,
     store |-> store, shape |-> shape, select |-> select]

\* A request to the login endpoint handled from its first statement to
\* its response.
Exchange(out) ==
    /\ Cardinality(out.U) <= MaxUsers
    /\ users' = out.U
    /\ passkeys' = out.P
    /\ hanko' = out.h
    /\ session' = out.s
    /\ last' = out.resp
    /\ tlast' = TaskQuiet
    /\ UNCHANGED <<inflight, tasks, clock, connVars>>

Apply(out) ==
    /\ Exchange(out)
    /\ UNCHANGED page

\* The answers of the store and the provider are drawn only for the calls
\* the request makes; a call that is not made has no answer to draw.  The
\* provider being unreachable (net) is drawn only for a credential it would
\* accept: it rejects the others either way.
IfCalled(called, answers, unused) == IF called THEN answers ELSE {unused}

\* { start: true, email }
StartRequest ==
    \E e \in Emails, q1 \in BOOLEAN :
      \E p1 \in IfCalled(q1, QueryPicks(users, e), NoUser) :
      \E li \in IfCalled(GetUserByEmail(users, e, q1, p1).t = "user", BOOLEAN, TRUE) :
      \E q2 \in IfCalled(StartServerPasskeyLogin(users, e, q1, p1, li).t = "null",
                         BOOLEAN, TRUE) :
      \E p2 \in IfCalled(q2, QueryPicks(users, e), NoUser) :
      \E cr \in IfCalled(StartServerPasskeyLogin(users, e, q1, p1, li).t = "null"
                           /\ GetUserByEmail(users, e, q2, p2).t = "null",
                         BOOLEAN, TRUE) :
      \E ri \in IfCalled(StartServerPasskeyLogin(users, e, q1, p1, li).t = "null"
                           /\ GetUserByEmail(users, e, q2, p2).t = "null"
                           /\ cr /\ IsEmail(e),
                         BOOLEAN, TRUE) :
        Apply(Post(users, passkeys, hanko, session,
                   Request(TRUE, FALSE, e, NoCred, Absent),
                   Env(q1, p1, li, q2, p2, cr, ri, TRUE, TRUE, "sub", TRUE)))

\* { finish: true, credential, userId }
FinishRegistrationRequest ==
    \E c \in Credentials, u \in ClientUserIds :
      \E net \in IfCalled(RegistrationVerifies(hanko, c, TRUE), BOOLEAN, TRUE) :
      \E st \in IfCalled(RegistrationVerifies(hanko, c, net), BOOLEAN, TRUE) :
        Apply(Post(users, passkeys, hanko, session,
                   Request(FALSE, TRUE, "", c, u),
                   Env(TRUE, NoUser, TRUE, TRUE, NoUser, TRUE, TRUE, net, st,
                       "sub", TRUE)))

\* The email claim of the token login.finalize yields for cred, if any.
EmailClaim(h, cred, net, shape) ==
    IF LoginVerifies(h, cred, net) THEN TokenClaims(h, cred, shape).email ELSE ""

\* { finish: true, credential }
FinishLoginRequest ==
    \E c \in Credentials :
      \E net \in IfCalled(LoginVerifies(hanko, c, TRUE), BOOLEAN, TRUE) :
      \E shape \in IfCalled(LoginVerifies(hanko, c, net), TokenShapes, "sub") :
      \E sel \in IfCalled(LoginVerifies(hanko, c, net)
                            /\ shape \in {"sub", "subemail"}, BOOLEAN, TRUE) :
      \E q \in IfCalled(~sel /\ shape = "subemail", BOOLEAN, TRUE) :
      \E p \in IfCalled(~sel /\ shape = "subemail" /\ q,
                        QueryPicks(users, EmailClaim(hanko, c, net, shape)),
                        NoUser) :
        Apply(Post(users, passkeys, hanko, session,
                   Request(FALSE, TRUE, "", c, Absent),
                   Env(q, p, TRUE, TRUE, NoUser, TRUE, TRUE, net, TRUE,
                       shape, sel)))

\* A body that is neither a start with an email nor a finish with a
\* credential.
InvalidRequests ==
    {Request(TRUE, FALSE, "", NoCred, Absent),
     Request(FALSE, TRUE, "", NoCred, Str("user", 1)),
     Request(FALSE, FALSE, "a@x.com", JunkCred, Absent)}

InvalidRequest ==
    \E req \in InvalidRequests :
        Apply(Post(users, passkeys, hanko, session, req,
                   Env(TRUE, NoUser, TRUE, TRUE, NoUser, TRUE, TRUE, TRUE, TRUE,
                       "sub", TRUE)))

\* A request to the register route: { start }, { finish, credential } or
\* neither.
RegisterRequest ==
    \E st \in BOOLEAN, fi \in BOOLEAN, c \in Credentials \cup {NoCred} :
        Apply(PostRegister(users, passkeys, hanko, session,
                           Request(st, fi, "", c, Absent),
                           Env(TRUE, NoUser, TRUE, TRUE, NoUser, TRUE, TRUE,
                               TRUE, TRUE, "sub", TRUE)))

Logout ==
    /\ session' = LogoutAction(session)
    /\ last' = [Quiet EXCEPT !.op = "logout", !.status = 302]
    /\ UNCHANGED <<users, passkeys, hanko, inflight>>
    /\ AuthOnly

LogoutSession ==
    /\ session' = ServerLogout(session)
    /\ last' = [Quiet EXCEPT !.op = "logoutSession"]
    /\ UNCHANGED <<users, passkeys, hanko, inflight>>
    /\ AuthOnly

GetUser ==
    \E sOk \in BOOLEAN :
        LET out == GetUserQuery(users, session, sOk)
        IN  /\ session' = out.s
            /\ last' = [Quiet EXCEPT !.op = "getUser",
                          !.respUserId = IF out.user = NoUser THEN Absent
                                         ELSE FullIdString("user", out.user.id)]
            /\ UNCHANGED <<users, passkeys, hanko, inflight>>
            /\ AuthOnly

Next ==
    \/ StartRequest
    \/ FinishRegistrationRequest
    \/ FinishLoginRequest
    \/ InvalidRequest
    \/ RegisterRequest
    \/ Logout
    \/ LogoutSession
    \/ GetUser

Spec == Init /\ [][Next]_vars

----------------------------------------------------------------------------
(* Start requests interleaved at their awaits.  A step is one awaited call *)
(* of the store or the provider and the handler's code up to its next      *)
(* await; inflight[r].status is the status of the response of slot r.      *)

Respond(r, status) ==
    inflight' = [inflight EXCEPT ![r] = [Idle EXCEPT !.status = status]]

Continue(r, pc, user) ==
    inflight' = [inflight EXCEPT ![r] = [@ EXCEPT !.pc = pc, !.user = user]]

\* POST start: startServerPasskeyLogin's `await getUserByEmail(email)`
ConcLoginLookup(r) ==
    /\ inflight[r].pc = "idle"
    /\ \E e \in Emails, qOk \in BOOLEAN :
       \E pick \in IfCalled(qOk, QueryPicks(users, e), NoUser) :
         LET found == GetUserByEmail(users, e, qOk, pick)
         IN  inflight' = [inflight EXCEPT ![r] =
                 IF found.t = "throw" THEN [Idle EXCEPT !.status = 500]
                 ELSE IF found.t = "user"
                 THEN [pc |-> "loginInit", email |-> e, user |-> found.user,
                       status |-> 0]
                 ELSE [pc |-> "regLookup", email |-> e, user |-> NoUser,
                       status |-> 0]]
    /\ UNCHANGED <<users, passkeys, hanko, session, last>>
    /\ AuthOnly

\* startServerPasskeyLogin's `await passkeyApi.login.initialize()`, whose
\* failure makes it return null and the handler start a registration.
ConcLoginInit(r) ==
    /\ inflight[r].pc = "loginInit"
    /\ \E initOk \in BOOLEAN :
         IF initOk THEN Respond(r, 200) ELSE Continue(r, "regLookup", NoUser)
    /\ UNCHANGED <<users, passkeys, hanko, session, last>>
    /\ AuthOnly

\* startServerPasskeyRegistration's `await getUserByEmail(email)`
ConcRegLookup(r) ==
    /\ inflight[r].pc = "regLookup"
    /\ \E qOk \in BOOLEAN :
       \E pick \in IfCalled(qOk, QueryPicks(users, inflight[r].email), NoUser) :
         IF GetUserByEmail(users, inflight[r].email, qOk, pick).t = "null"
         THEN Continue(r, "create", NoUser)
         ELSE Respond(r, 409)
    /\ UNCHANGED <<users, passkeys, hanko, session, last>>
    /\ AuthOnly

\* startServerPasskeyRegistration's `await createUser({ email })`
ConcCreateUser(r) ==
    /\ inflight[r].pc = "create"
    /\ \E cOk \in BOOLEAN :
         LET made == CreateUser(users, inflight[r].email, cOk)
         IN  /\ Cardinality(made.U) <= MaxUsers
             /\ users' = made.U
             /\ IF made.t = "user" THEN Continue(r, "regInit", made.user)
                ELSE Respond(r, 409)
    /\ UNCHANGED <<passkeys, hanko, session, last>>
    /\ AuthOnly

\* startServerPasskeyRegistration's
\* `await passkeyApi.registration.initialize(...)`
ConcRegInit(r) ==
    /\ inflight[r].pc = "regInit"
    /\ \E initOk \in BOOLEAN :
         /\ hanko' = RegistrationInitialize(hanko, inflight[r].user.id,
                                            inflight[r].user.email, initOk)
         /\ IF initOk THEN Respond(r, 200) ELSE Respond(r, 409)
    /\ UNCHANGED <<users, passkeys, session, last>>
    /\ AuthOnly

ConcNext ==
    \E r \in Slots :
        \/ ConcLoginLookup(r)
        \/ ConcLoginInit(r)
        \/ ConcRegLookup(r)
        \/ ConcCreateUser(r)
        \/ ConcRegInit(r)

SpecConc == Init /\ [][ConcNext]_vars

----------------------------------------------------------------------------
(* The task board in use: sign-up and sign-in requests the store and the   *)
(* provider answer, the pages' session checks, and the task requests.      *)

TaskEmails == {"a@x.com"}

\* The bodies a client sends to POST /api/passkeys/login here.
SignInRequests ==
    {Request(TRUE, FALSE, e, NoCred, Absent) : e \in TaskEmails}
        \cup {Request(FALSE, TRUE, "", c, u) :
                 c \in {cr \in Credentials : cr.kind = "reg"},
                 u \in {id \in ClientUserIds : id.tb = "user"}}
        \cup {Request(FALSE, TRUE, "", c, Absent) :
                 c \in {cr \in Credentials : cr.kind = "login"}}

\* POST /api/passkeys/login with every call to the store and the provider
\* answered.
SignInRequest ==
    \E req \in SignInRequests :
      \E p \in IfCalled(req.email # "", QueryPicks(users, req.email), NoUser) :
        Apply(Post(users, passkeys, hanko, session, req,
                   Env(TRUE, p, TRUE, TRUE, p, TRUE, TRUE, TRUE, TRUE, "sub", TRUE)))

\* routes/dashboard: the loader of the page, which redirects to /login
\* (302) when the session has no user or its user is not found.
DashboardLoader ==
    \E sOk \in IfCalled(SessionUserId(session) # Absent, BOOLEAN, TRUE) :
        LET out == GetUserQuery(users, session, sOk)
        IN  /\ session' = out.s
            /\ last' = [Quiet EXCEPT !.op = "dashboard",
                          !.status = IF out.user = NoUser THEN 302 ELSE 200,
                          !.respUserId = IF out.user = NoUser THEN Absent
                                         ELSE FullIdString("user", out.user.id)]
            /\ UNCHANGED <<users, passkeys, hanko, inflight>>
            /\ AuthOnly

\* A task request's effect on the state.
ApplyTask(out) ==
    /\ tasks' = out.T
    /\ clock' = out.clock
    /\ tlast' = out.resp
    /\ last' = Quiet
    /\ UNCHANGED <<users, passkeys, hanko, session, inflight, connVars, page>>

\* new Date(): the clock never runs backwards
Readings(from) == {at \in Instants : at >= from /\ at <= from + 1}

TaskBodies ==
    {Body(t, st, a, at) : t \in {"", "x", "ab", "cd"}, st \in {"", "todo"},
                          a \in {Absent}, at \in {0}}
        \cup {Body(t, "todo", Str("user", 1), MaxClock + 1) : t \in {"", "cd"}}

\* A body that is never read.
NoBody == Body("", "", Absent, 0)

GetTasks ==
    \E qOk \in IfCalled(SessionUserId(session) # Absent, BOOLEAN, TRUE) :
        ApplyTask(TasksGet(tasks, session, clock, qOk))

PostTask ==
    \E payload \in IfCalled(SessionUserId(session) # Absent, TaskBodies, NoBody) :
    \E id \in IfCalled(SessionUserId(session) # Absent
                         /\ TaskInputSchema(payload).success, TaskIds, 0) :
      \E at1 \in IfCalled(SessionUserId(session) # Absent
                            /\ TaskInputSchema(payload).success,
                          Readings(clock), clock) :
      \E at2 \in IfCalled(SessionUserId(session) # Absent
                            /\ TaskInputSchema(payload).success,
                          Readings(at1), clock) :
      \E cOk \in IfCalled(SessionUserId(session) # Absent
                            /\ TaskInputSchema(payload).success,
                          BOOLEAN, TRUE) :
        ApplyTask(TasksPost(tasks, session, clock, payload, id, at1, at2, cOk))

PatchTask ==
    \E id \in TaskIds :
      \E sOk \in IfCalled(SessionUserId(session) # Absent, BOOLEAN, TRUE) :
      \E payload \in IfCalled(SessionUserId(session) # Absent
                               /\ GetTaskAndCheckAuth(tasks, id,
                                      SessionUserId(session), sOk) = 0,
                             TaskBodies, NoBody) :
      \E at \in IfCalled(SessionUserId(session) # Absent
                           /\ GetTaskAndCheckAuth(tasks, id,
                                  SessionUserId(session), sOk) = 0
                           /\ TaskUpdateSchema(payload).success
                           /\ ~NoKeys(TaskUpdateSchema(payload).data),
                         Readings(clock), clock) :
      \E mOk \in IfCalled(SessionUserId(session) # Absent
                           /\ GetTaskAndCheckAuth(tasks, id,
                                  SessionUserId(session), sOk) = 0
                           /\ TaskUpdateSchema(payload).success
                           /\ ~NoKeys(TaskUpdateSchema(payload).data),
                         BOOLEAN, TRUE) :
        ApplyTask(TasksPatch(tasks, session, clock, id, payload, at, sOk, mOk))

DeleteTask ==
    \E id \in TaskIds :
      \E sOk \in IfCalled(SessionUserId(session) # Absent, BOOLEAN, TRUE) :
      \E dOk \in IfCalled(SessionUserId(session) # Absent
                           /\ GetTaskAndCheckAuth(tasks, id,
                                  SessionUserId(session), sOk) = 0,
                         BOOLEAN, TRUE) :
        ApplyTask(TasksDelete(tasks, session, clock, id, sOk, dOk))

\* A task request's effect when its id names a record of another table.
ApplyOther(out) ==
    /\ users' = out.U
    /\ passkeys' = out.P
    /\ clock' = out.clock
    /\ tlast' = out.resp
    /\ last' = Quiet
    /\ UNCHANGED <<tasks, hanko, session, inflight, connVars, page>>

\* The ids of other tables a client puts in the URL.
OtherRecordIds == {Str("user", 1), Str("passkey", 1)}

PatchOther ==
    \E rid \in OtherRecordIds :
      \E sOk \in IfCalled(SessionUserId(session) # Absent, BOOLEAN, TRUE) :
      \E payload \in IfCalled(SessionUserId(session) # Absent
                               /\ GetRecordAndCheckAuth(users, passkeys, rid,
                                      SessionUserId(session), sOk) = 0,
                             TaskBodies, NoBody) :
      \E at \in IfCalled(SessionUserId(session) # Absent
                           /\ GetRecordAndCheckAuth(users, passkeys, rid,
                                  SessionUserId(session), sOk) = 0
                           /\ TaskUpdateSchema(payload).success
                           /\ ~NoKeys(TaskUpdateSchema(payload).data),
                         Readings(clock), clock) :
      \E mOk \in IfCalled(SessionUserId(session) # Absent
                           /\ GetRecordAndCheckAuth(users, passkeys, rid,
                                  SessionUserId(session), sOk) = 0
                           /\ TaskUpdateSchema(payload).success
                           /\ ~NoKeys(TaskUpdateSchema(payload).data),
                         BOOLEAN, TRUE) :
        ApplyOther(TasksPatchOther(users, passkeys, session, clock, rid,
                                   payload, at, sOk, mOk))

DeleteOther ==
    \E rid \in OtherRecordIds :
      \E sOk \in IfCalled(SessionUserId(session) # Absent, BOOLEAN, TRUE) :
      \E dOk \in IfCalled(SessionUserId(session) # Absent
                           /\ GetRecordAndCheckAuth(users, passkeys, rid,
                                  SessionUserId(session), sOk) = 0,
                         BOOLEAN, TRUE) :
        ApplyOther(TasksDeleteOther(users, passkeys, session, clock, rid,
                                    sOk, dOk))

\* createAsync(() => getTaskByIdQuery(id, event)) and the preload call
\* without a request
FetchTaskById ==
    \E id \in TaskIds, withRequest \in BOOLEAN :
        ApplyTask(TaskOutcome(tasks, clock,
                              GetTaskByIdQuery(tasks, id, withRequest)))

TasksNext ==
    \/ SignInRequest
    \/ Logout
    \/ GetUser
    \/ DashboardLoader
    \/ GetTasks
    \/ PostTask
    \/ PatchTask
    \/ DeleteTask
    \/ PatchOther
    \/ DeleteOther
    \/ FetchTaskById

SpecTasks == Init /\ [][TasksNext]_vars

----------------------------------------------------------------------------
(* lib/surreal: the shared connection.  A promise is named by the number   *)
(* of the connection attempt that created it.                              *)

\* How many times surrealDatabase.connect has been invoked.
ConnectCalls(ps) == Cardinality({i \in DOMAIN ps : ps[i] # "none"})

\* Mutant: a new connection attempt on every call.
MutConnectEveryCall(cp, ps) ==
    [cp |-> ConnectCalls(ps) + 1,
     promises |-> [i \in DOMAIN ps |->
                      IF i = ConnectCalls(ps) + 1 THEN "pending" ELSE ps[i]]]

\* getSurrealConnection() on the server with its configuration present:
\* the memoized promise, created (and connect invoked) when there is none.
GetSurrealConnection(cp, ps) ==
    IF cp # 0 THEN [cp |-> cp, promises |-> ps]
    ELSE [cp |-> ConnectCalls(ps) + 1,
          promises |-> [i \in DOMAIN ps |->
                           IF i = ConnectCalls(ps) + 1 THEN "pending" ELSE ps[i]]]

\* A caller calls getSurrealConnection() and holds what it returns.
CallGetSurrealConnection(c) ==
    LET got == GetSurrealConnection(connectionPromise, promises)
    IN  /\ got.cp <= MaxConnects
        /\ connectionPromise' = got.cp
        /\ promises' = got.promises
        /\ callers' = [callers EXCEPT ![c] = [promise |-> got.cp, outcome |-> "none"]]
        /\ UNCHANGED <<users, passkeys, hanko, session, last, inflight,
                       tasks, clock, tlast, reachable, page>>

\* `await surrealDatabase.connect(...)` settles: resolve(surrealDatabase)
\* or reject(e).
ConnectSettles ==
    \E i \in DOMAIN promises :
        /\ promises[i] = "pending"
        /\ promises' = [promises EXCEPT
                           ![i] = IF reachable THEN "fulfilled" ELSE "rejected"]
        /\ UNCHANGED <<users, passkeys, hanko, session, last, inflight,
                       tasks, clock, tlast, connectionPromise, callers,
                       reachable, page>>

\* `const db = await getSurrealConnection()` resumes in a caller.
AwaitConnection(c) ==
    /\ callers[c].promise # 0
    /\ callers[c].outcome = "none"
    /\ promises[callers[c].promise] \in {"fulfilled", "rejected"}
    /\ callers' = [callers EXCEPT ![c].outcome =
                       IF promises[callers[c].promise] = "fulfilled"
                       THEN "connection" ELSE "error"]
    /\ UNCHANGED <<users, passkeys, hanko, session, last, inflight,
                   tasks, clock, tlast, connectionPromise, promises,
                   reachable, page>>

\* The database goes down or comes back.
ReachabilityChanges ==
    /\ reachable' = ~reachable
    /\ UNCHANGED <<users, passkeys, hanko, session, last, inflight,
                   tasks, clock, tlast, connectionPromise, promises, callers,
                   page>>

ConnNext ==
    \/ \E c \in Callers : CallGetSurrealConnection(c)
    \/ ConnectSettles
    \/ \E c \in Callers : AwaitConnection(c)
    \/ ReachabilityChanges

SpecConn == Init /\ [][ConnNext]_vars

----------------------------------------------------------------------------
(* The login page in use: one browser tab and the endpoint it talks to     *)

\* What the form lets a visitor submit: the button is disabled while
\* isLoading() or while the email field is empty.
TypedEmails == {"a@x.com", "nomail"}

ServerIdle == UNCHANGED <<users, passkeys, hanko, session, last, inflight,
                          tasks, clock, tlast, connVars>>

\* The submit event of the form
Submit ==
    /\ ~page.isLoading
    /\ \E e \in TypedEmails : page' = HandlerBegins(page, e)
    /\ ServerIdle

\* fetch of the start request rejects: the request never reached the
\* endpoint.
StartFetchFails ==
    /\ page.pc = "startFetch"
    /\ page' = AfterStart(page, Quiet, FALSE)
    /\ ServerIdle

\* The start request is handled and its response read.
StartFetch ==
    /\ page.pc = "startFetch"
    /\ \E q1 \in BOOLEAN :
       \E p1 \in IfCalled(q1, QueryPicks(users, page.email), NoUser) :
       \E li \in IfCalled(GetUserByEmail(users, page.email, q1, p1).t = "user",
                          BOOLEAN, TRUE) :
       \E q2 \in IfCalled(StartServerPasskeyLogin(users, page.email, q1, p1, li).t
                            = "null", BOOLEAN, TRUE) :
       \E p2 \in IfCalled(q2, QueryPicks(users, page.email), NoUser) :
       \E cr \in IfCalled(StartServerPasskeyLogin(users, page.email, q1, p1, li).t
                            = "null"
                            /\ GetUserByEmail(users, page.email, q2, p2).t = "null",
                          BOOLEAN, TRUE) :
       \E ri \in IfCalled(StartServerPasskeyLogin(users, page.email, q1, p1, li).t
                            = "null"
                            /\ GetUserByEmail(users, page.email, q2, p2).t = "null"
                            /\ cr /\ IsEmail(page.email),
                          BOOLEAN, TRUE) :
         LET out == Post(users, passkeys, hanko, session,
                         Request(TRUE, FALSE, page.email, NoCred, Absent),
                         Env(q1, p1, li, q2, p2, cr, ri, TRUE, TRUE, "sub", TRUE))
         IN  /\ Exchange(out)
             /\ page' = AfterStart(page, out.resp, TRUE)

\* The credentials the browser can resolve with: the answer to the
\* challenge of the registration options, or an assertion by a passkey the
\* visitor holds.
BrowserCredentials(pg) ==
    IF pg.pc = "startRegistration"
    THEN {[kind |-> "reg", uid |-> pg.startData.userId.id]}
    ELSE {[kind |-> "login", uid |-> n] : n \in UserNums}

\* startRegistration or startAuthentication settles.
BrowserCeremony ==
    /\ page.pc \in {"startRegistration", "startAuthentication"}
    /\ \E ok \in BOOLEAN :
       \E credential \in IfCalled(ok, BrowserCredentials(page), NoCred) :
         page' = AfterCeremony(page, ok, credential)
    /\ ServerIdle

FinishFetchFails ==
    /\ page.pc = "finishFetch"
    /\ page' = AfterFinish(page, Quiet, FALSE)
    /\ ServerIdle

\* The finish request is handled and its response read.
FinishFetch ==
    /\ page.pc = "finishFetch"
    /\ LET c == page.finishPayload.credential
           u == page.finishPayload.userId
       IN  \E net \in IfCalled(IF u # Absent
                               THEN RegistrationVerifies(hanko, c, TRUE)
                               ELSE LoginVerifies(hanko, c, TRUE),
                               BOOLEAN, TRUE) :
           \E st \in IfCalled(u # Absent /\ RegistrationVerifies(hanko, c, net),
                              BOOLEAN, TRUE) :
           \E shape \in IfCalled(u = Absent /\ LoginVerifies(hanko, c, net),
                                 TokenShapes, "sub") :
           \E sel \in IfCalled(u = Absent /\ LoginVerifies(hanko, c, net)
                                 /\ shape \in {"sub", "subemail"},
                               BOOLEAN, TRUE) :
           \E q \in IfCalled(u = Absent /\ ~sel /\ shape = "subemail",
                             BOOLEAN, TRUE) :
           \E p \in IfCalled(u = Absent /\ ~sel /\ shape = "subemail" /\ q,
                             QueryPicks(users, EmailClaim(hanko, c, net, shape)),
                             NoUser) :
             LET out == Post(users, passkeys, hanko, session,
                             Request(FALSE, TRUE, "", c, u),
                             Env(q, p, TRUE, TRUE, NoUser, TRUE, TRUE, net, st,
                                 shape, sel))
             IN  /\ Exchange(out)
                 /\ page' = AfterFinish(page, out.resp, TRUE)

ClientNext ==
    \/ Submit
    \/ StartFetchFails
    \/ StartFetch
    \/ BrowserCeremony
    \/ FinishFetchFails
    \/ FinishFetch

SpecClient == Init /\ [][ClientNext]_vars

----------------------------------------------------------------------------
(* Claims                                                                  *)

StartOf(l) == l.op = "start"
RegFinishOf(l) == l.op = "finish" /\ l.branch = "register"
LoginFinishOf(l) == l.op = "finish" /\ l.branch = "login"
Called(l, fn, ok) == Call(fn, 0, ok) \in l.calls
CalledFn(l, fn) == \E c \in l.calls : c.fn = fn

\* C1: a start request whose lookup the store answered enters the
\* registration branch if and only if the user table had no record with the
\* request's email; nothing else (such as the outcome of login.initialize)
\* decides the branch.
C1_RegistrationBranchIffNoUser ==
    (StartOf(last) /\ last.loginResult # "throw")
        => (last.branch = "register" <=> ~last.hadUser)

\* C2: for an email with no user record, startServerPasskeyLogin never
\* returns a login challenge and never calls login.initialize; it returns
\* null (it throws only when the store fails the lookup query).
C2_UnknownEmailNoChallenge ==
    (StartOf(last) /\ ~last.hadUser)
        => /\ last.loginResult \in {"null", "throw"}
           /\ ~CalledFn(last, "login.initialize")
           /\ last.loginResult = "throw" => Called(last, "db.query.user", FALSE)

C2_Witness ==
    StartOf(last) /\ ~last.hadUser /\ last.loginResult = "null"

AllCallsOk(l) == \A c \in l.calls : c.ok

C4_OneUserPerEmail ==
    \A e \in Emails : IsEmail(e) => Cardinality(UsersWithEmail(users, e)) <= 1

\* C5: a registration finish for userId u succeeds only if a registration
\* start issued a challenge for u that has not been finished yet.
C5_FinishOnlyForPendingCeremony ==
    (RegFinishOf(last) /\ last.status = 200) => last.wasPending


\* C6: when the provider rejects registration.finalize in a registration
\* finish, the request adds no passkey record, leaves the user table and the
\* session as they were and does not answer 200.
C6_RejectedFinishChangesNothing ==
    [][(RegFinishOf(last') /\ Called(last', "registration.finalize", FALSE))
          => /\ passkeys' = passkeys
             /\ users' = users
             /\ session' = session
             /\ last'.status = 500
             /\ last'.stored = {}]_vars

C6_Witness ==
    /\ RegFinishOf(last) /\ Called(last, "registration.finalize", FALSE)
    /\ \E u \in users : Str("user", u.id) = SplitUserId(last.userId)

\* C7: a passkey record is only ever added by a registration finish whose
\* registration.finalize call returned successfully, one record at a time,
\* and no step removes or rewrites one.
C7_CredentialOnlyAfterFinalize ==
    [][passkeys' # passkeys
          => /\ RegFinishOf(last')
             /\ Called(last', "registration.finalize", TRUE)
             /\ passkeys \subseteq passkeys'
             /\ Cardinality(passkeys') = Cardinality(passkeys) + 1
             /\ last'.stored = passkeys' \ passkeys]_vars

C7_Witness ==
    /\ passkeys # {} /\ RegFinishOf(last) /\ last.stored # {}
    /\ Called(last, "registration.finalize", TRUE)

\* The user the last login finish answered with is a record of the user
\* table that passes the User shape.
AnsweredKnownUser(l, U) ==
    \E u \in U : UserSchemaOk(u) /\ Str("user", u.id) = l.respUserId

\* C8 as stated: a login finish returns a user (200, session written) only
\* when the lookup of user:<sub> by identifier resolved.
C8_UserOnlyWhenSubResolves ==
    (LoginFinishOf(last) /\ last.status = 200)
        => /\ Called(last, "db.select.user", TRUE)
           /\ last.respUserId = Str("user", last.verifiedFor)

\* C8 amended: a login finish answers 401 and leaves the session as it was
\* whenever the provider rejects the response, or the lookup of user:<sub>
\* by identifier yields no user and the lookup of the token's email claim
\* (made only when the token carries one) yields none either; it answers
\* 200 with a user of the user table, written to the session, only when
\* the provider accepted and one of the two lookups was answered.
C8_LoginFinishFailsUnlessResolved ==
    [][LoginFinishOf(last')
          => /\ last'.status \in {200, 401}
             /\ Called(last', "login.finalize", FALSE) => last'.status = 401
             /\ (~Called(last', "db.select.user", TRUE)
                   /\ ~Called(last', "db.query.user", TRUE)) => last'.status = 401
             /\ last'.status = 401
                   => last'.respUserId = Absent /\ session' = session
             /\ last'.status = 200
                   => /\ Called(last', "login.finalize", TRUE)
                      /\ AnsweredKnownUser(last', users')
                      /\ SessionUserId(session') = last'.respUserId
                      /\ Called(last', "db.select.user", TRUE)
                            => last'.respUserId = Str("user", last'.verifiedFor)]_vars

C8_Witness ==
    /\ LoginFinishOf(last) /\ last.status = 401
    /\ Called(last, "login.finalize", TRUE)
    /\ Called(last, "db.select.user", FALSE)
    /\ ~CalledFn(last, "db.query.user")

\* C9: the session's userId is set or replaced only by a finish request
\* that answers 200 after the provider verified its credential; start
\* requests, requests with invalid parameters and finish requests that fail
\* leave the session as it was.
C9_SessionOnlyOnVerifiedFinish ==
    [][/\ (SessionUserId(session') # SessionUserId(session)
             /\ SessionUserId(session') # Absent)
          => /\ last'.op = "finish" /\ last'.status = 200
             /\ last'.verifiedFor # 0
             /\ SessionUserId(session') = last'.respUserId
       /\ (last'.op \in {"start", "invalid"}
             \/ (last'.op = "finish" /\ last'.status # 200))
          => session' = session]_vars

C9_Witness ==
    /\ last.op = "finish" /\ last.status = 200
    /\ SessionUserId(session) # Absent

\* C10: after either logout operation, the session the authenticated routes
\* read reports no userId.
C10_LogoutClearsSession ==
    [][last'.op \in {"logout", "logoutSession"}
          => SessionUserId(session') = Absent]_vars

\* C19: a finish request whose credential the provider rejects is answered
\* 401 or 409, never 500, whether it is a login finish or a registration
\* finish.
C19_RejectedCeremonyNever500 ==
    (last.op = "finish"
       /\ (Called(last, "registration.finalize", FALSE)
             \/ Called(last, "login.finalize", FALSE)))
        => last.status \in {401, 409}

\* C20: a registration start for an email that has a user record answers
\* the conflict error, adds no user record and calls no provider
\* registration operation; and the start phase answers 409 only for that
\* conflict, never for a failure of the store or of the provider.
C20_ConflictOnlyForDuplicateEmail ==
    (StartOf(last) /\ last.branch = "register")
        => /\ last.hadUser
               => /\ last.status = 409
                  /\ last.msg = AlreadyRegistered
                  /\ last.created = {}
                  /\ ~CalledFn(last, "registration.initialize")
           /\ last.status = 409
               => (last.hadUser /\ AllCallsOk(last))

CallBy(c) == callers'[c] # callers[c] /\ callers'[c].outcome = "none"

\* C17: as long as no connection attempt has failed, connect has been
\* invoked at most once, exactly once when some caller has called, and
\* every caller that called holds the one memoized promise; a call made
\* after the connection succeeded invokes connect no further time.
C17_ConnectOnce ==
    [][/\ (\A i \in DOMAIN promises' : promises'[i] # "rejected")
           => /\ ConnectCalls(promises') <= 1
              /\ \A c \in Callers :
                    callers'[c].promise # 0
                        => /\ callers'[c].promise = connectionPromise'
                           /\ ConnectCalls(promises') = 1
       /\ (connectionPromise # 0 /\ promises[connectionPromise] = "fulfilled")
           => ConnectCalls(promises') = ConnectCalls(promises)]_vars

C17_Witness ==
    /\ \E c, d \in Callers :
          /\ c # d
          /\ callers[c] = [promise |-> connectionPromise, outcome |-> "connection"]
          /\ callers[d] = [promise |-> connectionPromise, outcome |-> "none"]
    /\ connectionPromise # 0
    /\ ConnectCalls(promises) = 1

\* C18: a call to getSurrealConnection made after the connection attempt
\* was rejected starts a new attempt: the caller gets a pending promise,
\* not the rejected one.
C18_RetryAfterFailure ==
    [][\A c \in Callers :
          (connectionPromise # 0 /\ promises[connectionPromise] = "rejected"
             /\ CallBy(c))
              => /\ callers'[c].promise # connectionPromise
                 /\ promises'[callers'[c].promise] = "pending"]_vars

TaskRouteOps == {"get", "post", "patch", "delete"}
SessionUserKnown == GetUserById(users, SessionUserId(session), TRUE) # NoUser
SameId(t, o) == t.id = o.id

\* C11: every authenticated entry point (getUser, the dashboard loader and
\* the four task routes), reached with a session whose userId resolves to
\* no user record, clears the session and treats the request as
\* unauthenticated.
C11_EveryEntryPointChecksUser ==
    [][/\ (tlast'.op \in TaskRouteOps /\ ~SessionUserKnown)
           => (tlast'.status = 401 /\ SessionUserId(session') = Absent)
       /\ (last'.op \in {"getUser", "dashboard"} /\ ~SessionUserKnown)
           => (last'.respUserId = Absent /\ SessionUserId(session') = Absent)]_vars

\* C12: a task created through POST /api/tasks has the session user as its
\* author whatever the body carries, and GET /api/tasks answers a session
\* user exactly the tasks of which that user is the author.
C12_AuthorIsCreatorAndListIsOwn ==
    [][/\ (tlast'.op = "post" /\ tlast'.status = 201)
           => \A t \in tasks' \ tasks : t.author = SessionUserId(session)
       /\ (tlast'.op = "get" /\ tlast'.status = 200)
           => tlast'.data = {t \in tasks : t.author = SessionUserId(session)}]_vars

\* C13: a PATCH or DELETE of an existing task by a session user who is not
\* its author leaves the task table as it was (the task exists, every
\* field unchanged); it is answered 403 when the store answers the select
\* of the task, and 500 when that select fails.
C13_NonOwnerChangesNothing ==
    [][\A t \in tasks :
          (tlast'.op \in {"patch", "delete"} /\ tlast'.id = t.id
             /\ SessionUserId(session) # Absent
             /\ SessionUserId(session) # t.author)
              => /\ tasks' = tasks
                 /\ tlast'.storeOk => tlast'.status = 403
                 /\ ~tlast'.storeOk => tlast'.status = 500]_vars

C13_Witness ==
    /\ tlast.op \in {"patch", "delete"}
    /\ tlast.status = 403
    /\ \E t \in tasks : t.id = tlast.id /\ t.author # SessionUserId(session)
    /\ SessionUserId(session) # Absent

\* C14: a task's author is the session user of the POST that created it
\* and never changes afterwards: each stored id has one record, a new
\* record appears only through POST with the session user as author, and
\* no request (a PATCH whose body carries an author included) changes the
\* author of a stored task.
C14_AuthorNeverReassigned ==
    [][/\ \A t, o \in tasks' : SameId(t, o) => t = o
       /\ \A t \in tasks' :
             IF \E o \in tasks : SameId(t, o)
             THEN \A o \in tasks : SameId(t, o) => t.author = o.author
             ELSE /\ tlast'.op = "post"
                  /\ SessionUserId(session) # Absent
                  /\ t.author = SessionUserId(session)]_vars

C14_Witness ==
    /\ tlast.op = "patch" /\ tlast.status = 200 /\ tlast.extras
    /\ \E t \in tasks : t.id = tlast.id /\ t.author # Str("user", 1)

\* C15: every stored task has updatedAt >= createdAt; createdAt is an
\* instant the server clock was read at during the POST that created the
\* task and never changes; updatedAt is always an instant the server read
\* during the request that wrote it, never a value of the body.
C15_ServerTimestamps ==
    [][\A t \in tasks' :
          /\ t.updatedAt >= t.createdAt
          /\ \A o \in tasks : SameId(t, o) => t.createdAt = o.createdAt
          /\ t \notin tasks
               => /\ t.updatedAt >= clock /\ t.updatedAt <= clock'
                  /\ (~\E o \in tasks : SameId(t, o))
                       => (t.createdAt >= clock /\ t.createdAt <= clock')]_vars

C15_Witness ==
    /\ tlast.op = "patch" /\ tlast.status = 200 /\ tlast.extras
    /\ \E t \in tasks : t.id = tlast.id /\ t.updatedAt > t.createdAt

\* C16: the by-id query made by the owner of an existing task resolves to
\* that task, equal to the stored record, never to null.
C16_OwnerFetchByIdRoundTrip ==
    [][\A t \in tasks :
          (tlast'.op = "taskById" /\ tlast'.id = t.id
             /\ t.author = SessionUserId(session))
              => tlast'.data = {t}]_vars

----------------------------------------------------------------------------
(* Claims about the error paths of the ceremonies                          *)

\* C21: when the provider has confirmed a registration and storing the
\* credential then fails, the error finishServerPasskeyRegistration raises
\* differs from the error it raises when the provider rejects the ceremony.
C21_StoreFailureDistinctFromRejection ==
    \A u \in ClientUserIds, c \in Credentials :
      RegistrationVerifies(hanko, c, TRUE) =>
        LET rejected == FinishServerPasskeyRegistration(passkeys, hanko, u,
                                                        JunkCred, TRUE, TRUE)
            unstored == FinishServerPasskeyRegistration(passkeys, hanko, u,
                                                        c, TRUE, FALSE)
        IN  /\ rejected.t = "throw"
            /\ unstored.t = "throw"
            /\ rejected.msg # unstored.msg

\* C22: a registration start in which registration.initialize fails leaves
\* no user record for the request's email, so that a later start for the
\* email is a registration again.
C22_FailedInitializeLeavesNoUser ==
    (StartOf(last) /\ \E c \in last.calls :
                          c.fn = "registration.initialize" /\ ~c.ok)
        => /\ last.created = {}
           /\ UsersWithEmail(users, last.email) = {}

\* C23: the user directory hands out only records that satisfy the User
\* shape, a stored record that fails the shape is not reported as "no such
\* user", and a create whose record fails the shape persists no record.
C23_ShapeFailureIsAnError ==
    /\ \A e \in Emails : \A pick \in QueryPicks(users, e) :
         LET found == GetUserByEmail(users, e, TRUE, pick)
         IN  /\ found.t = "user" => UserSchemaOk(found.user)
             /\ (pick # NoUser /\ ~UserSchemaOk(pick)) => found.t # "null"
    /\ \A n \in UserNums :
         LET byId == GetUserById(users, Str("user", n), TRUE)
         IN  byId # NoUser => UserSchemaOk(byId)
    /\ StartOf(last) => \A u \in last.created : UserSchemaOk(u)

\* C26: no response of the login endpoint carries the text of an exception
\* raised by the record store or by the provider.
C26_NoRawExceptionText ==
    last.msg \notin {StoreError, ProviderError}

\* C27: after a successful registration finish the session's user, and the
\* user of the credential record stored, is the user for whom the provider
\* issued and verified the registration challenge.
C27_SessionIsTheVerifiedUser ==
    (RegFinishOf(last) /\ last.status = 200)
        => /\ SplitUserId(SessionUserId(session)) = Str("user", last.verifiedFor)
           /\ \A p \in last.stored :
                SplitUserId(p.userId) = Str("user", last.verifiedFor)

\* C29: with the requests handled one at a time no two user records share
\* an email, and a start creates a user record only when the table held
\* none with the request's email.
C29_SequentialOneUserPerEmail ==
    /\ \A e \in Emails : Cardinality(UsersWithEmail(users, e)) <= 1
    /\ (last.created # {}) => (StartOf(last) /\ ~last.hadUser)

\* C24: the register route answers 401 and makes no store or provider call
\* when the request has no authenticated user; for an authenticated user a
\* start answers 200 without creating a user record, and a finish with a
\* credential the provider accepts stores the credential under that user.
C24_RegisterRouteChecksUser ==
    last.op = "register"
        => /\ ~SessionUserKnown => (last.status = 401 /\ last.calls = {})
           /\ last.created = {}
           /\ (SessionUserKnown /\ last.branch = "start"
                 /\ AllCallsOk(last)) => last.status = 200
           /\ \A p \in last.stored :
                SplitUserId(p.userId) = SplitUserId(SessionUserId(session))

----------------------------------------------------------------------------
(* Claims about the error answers of the task routes                       *)

\* C25: a task request of a session without a userId is answered 401 with
\* no operation on the store; with a userId, a PATCH or DELETE whose id has
\* no record is answered 404 (the store answering the select), a POST whose
\* body fails validation 400, and a PATCH of one's own task whose body
\* fails validation 400; each of these answers leaves the task table as it
\* was.
C25_ErrorAnswersLeaveStoreAlone ==
    [][tlast'.op \in TaskRouteOps
         => /\ SessionUserId(session) = Absent
                => (tlast'.status = 401 /\ tlast'.calls = {})
            /\ (SessionUserId(session) # Absent
                  /\ tlast'.op \in {"patch", "delete"}
                  /\ ~tlast'.existed /\ tlast'.storeOk)
                => tlast'.status = 404
            /\ (SessionUserId(session) # Absent /\ tlast'.op = "post"
                  /\ ~tlast'.bodyOk)
                => (tlast'.status = 400 /\ tlast'.calls = {})
            /\ (tlast'.op = "patch" /\ ~tlast'.bodyOk /\ tlast'.storeOk
                  /\ GetTaskAndCheckAuth(tasks, tlast'.id,
                                         SessionUserId(session), TRUE) = 0)
                => tlast'.status = 400
            /\ tlast'.status \in {400, 401, 404}
                => (tasks' = tasks /\ tlast'.calls \subseteq {"db.select"})]_vars

\* Signed out, with a task in the table, a DELETE of that task was answered
\* 401.
C25_Witness ==
    /\ tlast.op = "delete"
    /\ tlast.status = 401
    /\ tlast.existed
    /\ tasks # {}
    /\ SessionUserId(session) = Absent

\* C28: a PATCH or DELETE whose id names a record of the user table or of
\* the passkey table ends in an error response and leaves the user table,
\* the passkey table and the task table as they were; and no task request
\* changes the user table or the passkey table.
C28_TaskRoutesTouchOnlyTasks ==
    [][/\ tlast'.op \in {"patchOther", "deleteOther"}
           => /\ tlast'.status \in {401, 404, 500}
              /\ users' = users
              /\ passkeys' = passkeys
              /\ tasks' = tasks
       /\ tlast'.op # "none" => (users' = users /\ passkeys' = passkeys)]_vars

\* Signed in, a DELETE of /api/tasks/user:1 was answered 500 and the user
\* record is still there.
C28_Witness ==
    /\ tlast.op = "deleteOther"
    /\ tlast.tb = "user"
    /\ tlast.existed
    /\ tlast.status = 500
    /\ tlast.storeOk
    /\ SessionUserId(session) # Absent
    /\ SelectRecord(users, passkeys, Str("user", tlast.id)) # {}

----------------------------------------------------------------------------
(* Claims about the login page                                             *)

\* C30: the finish request of the login page carries a userId exactly when
\* the start response had isRegistering true, and then the userId of that
\* start response, so the endpoint's finish phase is a registration finish
\* after a registration start and a login finish after a login start; and
\* whenever the handler has ended, isLoading is false.
C30_FinishMatchesStartAndLoadingEnds ==
    /\ page.finishPayload.finish
         => /\ (page.finishPayload.userId # Absent) <=> page.startData.isRegistering
            /\ page.startData.isRegistering
                 => page.finishPayload.userId = page.startData.userId
    /\ page.finishKind # ""
         => page.finishKind = IF page.startData.isRegistering
                              THEN "register" ELSE "login"
    /\ page.pc = "ended" => ~page.isLoading
    /\ page.isLoading <=> page.pc \notin {"idle", "ended"}

\* A registration went through the page: the start response was a
\* registration for user:1, the finish carried that userId, the endpoint
\* ran its registration finish, the page navigated and stopped loading.
C30_Witness ==
    /\ page.pc = "ended"
    /\ page.path = "success"
    /\ page.navigated
    /\ page.startData.isRegistering
    /\ page.finishPayload.userId = Str("user", 1)
    /\ page.finishKind = "register"
    /\ ~page.isLoading
    /\ SessionUserId(session) = Str("user", 1)

============================================================================
